---- MODULE Spec2Model ----
(***************************************************************************)
(* Positional read/write traits of the read_write_at crate (src/lib.rs):   *)
(* the default exact-transfer loops (read_exact_at, write_all_at), the     *)
(* blanket impls that widen ReadAt/WriteAt to ReadAtMut/WriteAtMut, the    *)
(* seek adapter ReadWriteSeek over a std::io::Cursor<Vec<u8>>, and the     *)
(* std::sync::Mutex<T> bridge called from two threads.                     *)
(*                                                                         *)
(* A u64 offset is kept exactly, for the values near both ends of the      *)
(* range: an integer x >= 0 stands for x and an integer x < 0 stands for   *)
(* 2^64 + x.  Adding a small n is x + n in this encoding, wrap-around      *)
(* included, and the addition overflows exactly when x < 0 <= x + n.       *)
(***************************************************************************)
EXTENDS Integers, Sequences, FiniteSets, TLC

\* ------------------------------------------------------------- bounds
\* Longest caller buffer.
MaxLen == 3
\* Interrupted results the environment delivers within one call.
MaxIntr == 1
\* Tracked addresses just below 2^64.
TopLen == 1

\* ---------------------------------------------------------- constants
Threads == {"A", "B"}
NoThread == "none"

ReadOps == {"read_at", "read_exact_at"}
WriteOps == {"write_at", "write_all_at"}
ExactOps == {"read_exact_at", "write_all_at"}
Ops == ReadOps \cup WriteOps

\* How the call reaches the resource R:
\*   direct  : R's own ReadAtMut/WriteAtMut methods (&mut R)
\*   mutex   : impl ReadAt/WriteAt for Mutex<R> (&Mutex<R>)
\*   widened : the blanket impl ReadAtMut/WriteAtMut for T = Mutex<R> (&mut Mutex<R>)
Routes == {"direct", "mutex", "widened"}

\* R is either a type that implements only the single-call primitives
\* (its exact operations are the traits' default loops), or
\* ReadWriteSeek<Cursor<Vec<u8>>>.
Kinds == {"prim", "cursor"}
\* ReadWriteSeek<S> over the Cursor, or over a seekable stream S on the same
\* Vec whose seek may land on another position or fail (the adapter takes
\* any S: Seek).
SeekKinds == {"cursor", "stream"}

\* Results: io::Result<usize> and io::Result<()> (Ok(()) is Ok(0) at an exact op).
Ok(n) == [tag |-> "Ok", n |-> n, kind |-> "-"]
Err(k) == [tag |-> "Err", n |-> 0, kind |-> k]
NoRes == [tag |-> "None", n |-> 0, kind |-> "-"]

Min(a, b) == IF a < b THEN a ELSE b

\* The Vec of the tests, and the bytes written by tests::i_want_immut3.
TestVec == <<4, 5, 6, 7, 8, 9, 10, 11>>
StoreLen == Len(TestVec)
WriteData(n) == [i \in 1..n |-> 44]
ReadBuf(n) == [i \in 1..n |-> 0]

\* Tracked addresses of the positional store: its first StoreLen bytes and
\* its last TopLen bytes (negative: 2^64 + a).
Addr == (0..(StoreLen - 1)) \cup ((0 - TopLen)..(-1))
InitialStore == [a \in Addr |-> IF a >= 0 THEN TestVec[a + 1] ELSE 100 + a]

\* offset += n as u64: the sum (wrapped) and whether it overflows.
U64Add(x, n) == x + n
U64Overflows(x, n) == x < 0 /\ x + n >= 0

\* Bytes a single call can transfer starting at address x without leaving
\* the tracked addresses (nor crossing 2^64).
Avail(x) == IF x \in Addr THEN (IF x < 0 THEN 0 - x ELSE StoreLen - x) ELSE 0

Slice(st, x, n) == [i \in 1..n |-> st[x + i - 1]]
WriteBytes(st, x, d) ==
    [a \in Addr |-> IF a >= x /\ a < x + Len(d) THEN d[a - x + 1] ELSE st[a]]
\* buf with positions g+1..g+Len(d) overwritten by d.
Fill(b, g, d) ==
    [i \in 1..Len(b) |-> IF i > g /\ i <= g + Len(d) THEN d[i - g] ELSE b[i]]
Rest(b, g) == SubSeq(b, g + 1, Len(b))

VARIABLES
    kind,       \* which R is wrapped
    store,      \* contents of the positional store
    cursor,     \* position of the Cursor (kind = "cursor")
    mutex,      \* [holder, poisoned] of the std::sync::Mutex
    pc,         \* per thread: where its call stands
    op,         \* per thread: the operation called
    route,      \* per thread: how the call reaches R
    buf,        \* per thread: the caller's buffer (whole)
    got,        \* per thread: bytes dropped from the front of buf (buf = &buf[n..])
    offset,     \* per thread: the loop's offset
    ires,       \* per thread: result of the operation on R, before the guard drops
    res,        \* per thread: result returned to the caller
    ooff,       \* per thread: the offset the caller passed
    xfer,       \* per thread: sum of the counts of the Ok(n) sub-calls
    lastsub,    \* per thread: the loop's latest sub-call [off, rem, r]
    nintr,      \* per thread: Interrupted results delivered in this call
    tcalls,     \* per thread: operations invoked on the Mutex in this call
    seek_o,     \* per thread: what Seek::seek returned in this call
    storeL,     \* the store when the running call got exclusive access to R
    cursorB,    \* the cursor before the latest seek
    lastL,      \* the thread that acquired the Mutex most recently
    storeW,     \* the store before the latest write operation on R through the Mutex
    hb          \* per thread: the thread whose call, the latest to hold the Mutex,
                \* had returned when this thread's call began (or NoThread)

shared == <<kind, store, cursor, mutex>>
callv == <<op, route, buf, ooff, seek_o>>
loopv == <<got, offset, xfer, lastsub, nintr>>
ghost == <<storeL, cursorB, lastL, storeW, hb>>
vars == <<kind, store, cursor, mutex, pc, op, route, buf, got, offset, ires,
          res, ooff, xfer, lastsub, nintr, tcalls, seek_o, storeL, cursorB, lastL,
          storeW, hb>>

NoSub == [off |-> 0, rem |-> 0, r |-> NoRes]

\* The state after construction: the Vec of the tests, nothing locked, no
\* call in progress.
Constructed ==
    /\ store = InitialStore
    /\ cursor = 0
    /\ mutex = [holder |-> NoThread, poisoned |-> FALSE]
    /\ pc = [t \in Threads |-> "idle"]
    /\ op = [t \in Threads |-> "read_at"]
    /\ route = [t \in Threads |-> "mutex"]
    /\ buf = [t \in Threads |-> <<>>]
    /\ got = [t \in Threads |-> 0]
    /\ offset = [t \in Threads |-> 0]
    /\ ires = [t \in Threads |-> NoRes]
    /\ res = [t \in Threads |-> NoRes]
    /\ ooff = [t \in Threads |-> 0]
    /\ xfer = [t \in Threads |-> 0]
    /\ lastsub = [t \in Threads |-> NoSub]
    /\ nintr = [t \in Threads |-> 0]
    /\ tcalls = [t \in Threads |-> <<>>]
    /\ seek_o = [t \in Threads |-> NoRes]
    /\ storeL = InitialStore
    /\ cursorB = 0
    /\ lastL = NoThread
    /\ storeW = InitialStore
    /\ hb = [t \in Threads |-> NoThread]

Init == kind \in Kinds /\ Constructed

\* The adapter over a stream whose seek is not the Cursor's.
InitSeek == kind = "stream" /\ Constructed

\* ------------------------------------------------- the traits' default loops
\* What the loop returns once `while !buf.is_empty()` is false.
\* Variant, not the source's: a loop end that ignores the unfilled rest.
\* C1 depends on the test after the loop.
read_exact_at_end_lenient(remlen) == Ok(0)

\* Variant, not the source's: the test after the loop the wrong way round.
\* C16 depends on `if !buf.is_empty()`.
read_exact_at_end_inverted(remlen) == IF remlen > 0 THEN Ok(0) ELSE Err("UnexpectedEof")

read_exact_at_end(remlen) == IF remlen > 0 THEN Err("UnexpectedEof") ELSE Ok(0)
write_all_at_end(remlen) == Ok(0)

\* Variant, not the source's: a match without the Interrupted arm, which
\* returns Interrupted like any other error.  C7 depends on that arm.
read_exact_at_match_surfacing(r, remlen) ==
    CASE r = Ok(0) -> [fin |-> TRUE, n |-> 0, res |-> IF remlen > 0 THEN Err("UnexpectedEof") ELSE Ok(0)]
      [] r.tag = "Ok" /\ r.n > 0 -> [fin |-> FALSE, n |-> r.n, res |-> NoRes]
      [] OTHER -> [fin |-> TRUE, n |-> 0, res |-> r]

\* Variant, not the source's: an Ok(n) arm that advances neither the buffer
\* nor the offset.  C17 depends on `buf = &mut tmp[n..]`.
read_exact_at_match_stalling(r, remlen) ==
    CASE r = Ok(0) -> [fin |-> TRUE, n |-> 0, res |-> IF remlen > 0 THEN Err("UnexpectedEof") ELSE Ok(0)]
      [] r.tag = "Ok" /\ r.n > 0 -> [fin |-> FALSE, n |-> 0, res |-> NoRes]
      [] r = Err("Interrupted") -> [fin |-> FALSE, n |-> 0, res |-> NoRes]
      [] OTHER -> [fin |-> TRUE, n |-> 0, res |-> r]

\* One arm of the match in ReadAt::read_exact_at / ReadAtMut::read_exact_at,
\* for the result r of read_at on a remaining buffer of remlen > 0 bytes:
\* fin (the loop is left and res returned), or n bytes to advance by.
\* Ok(0) breaks out of the loop, to the test that follows it.
read_exact_at_match(r, remlen) ==
    CASE r = Ok(0) -> [fin |-> TRUE, n |-> 0, res |-> read_exact_at_end(remlen)]
      [] r.tag = "Ok" /\ r.n > 0 -> [fin |-> FALSE, n |-> r.n, res |-> NoRes]
      [] r = Err("Interrupted") -> [fin |-> FALSE, n |-> 0, res |-> NoRes]
      [] OTHER -> [fin |-> TRUE, n |-> 0, res |-> r]

\* Variants, not the source's: a match whose Ok(0) arm breaks out of the
\* loop to its Ok(()), and one whose Ok(0) arm goes round the loop again.
\* C2 and C10 depend on the WriteZero arm.
write_all_at_match_breaking(r, remlen) ==
    CASE r = Ok(0) -> [fin |-> TRUE, n |-> 0, res |-> Ok(0)]
      [] r.tag = "Ok" /\ r.n > 0 -> [fin |-> FALSE, n |-> r.n, res |-> NoRes]
      [] r = Err("Interrupted") -> [fin |-> FALSE, n |-> 0, res |-> NoRes]
      [] OTHER -> [fin |-> TRUE, n |-> 0, res |-> r]
\* Variant, not the source's: an Err arm without the test of the kind, which
\* goes round the loop on every error.  C13 depends on `Err(e) => return Err(e)`.
write_all_at_match_swallowing(r, remlen) ==
    CASE r = Ok(0) -> [fin |-> TRUE, n |-> 0, res |-> Err("WriteZero")]
      [] r.tag = "Ok" /\ r.n > 0 -> [fin |-> FALSE, n |-> r.n, res |-> NoRes]
      [] OTHER -> [fin |-> FALSE, n |-> 0, res |-> NoRes]
write_all_at_match_retrying(r, remlen) ==
    CASE r.tag = "Ok" -> [fin |-> FALSE, n |-> r.n, res |-> NoRes]
      [] r = Err("Interrupted") -> [fin |-> FALSE, n |-> 0, res |-> NoRes]
      [] OTHER -> [fin |-> TRUE, n |-> 0, res |-> r]

\* One arm of the match in WriteAt::write_all_at / WriteAtMut::write_all_at.
write_all_at_match(r, remlen) ==
    CASE r = Ok(0) -> [fin |-> TRUE, n |-> 0, res |-> Err("WriteZero")]
      [] r.tag = "Ok" /\ r.n > 0 -> [fin |-> FALSE, n |-> r.n, res |-> NoRes]
      [] r = Err("Interrupted") -> [fin |-> FALSE, n |-> 0, res |-> NoRes]
      [] OTHER -> [fin |-> TRUE, n |-> 0, res |-> r]

LoopMatch(o, r, remlen) ==
    IF o = "read_exact_at" THEN read_exact_at_match(r, remlen)
    ELSE write_all_at_match(r, remlen)

LoopEnd(o, remlen) ==
    IF o = "read_exact_at" THEN read_exact_at_end(remlen) ELSE write_all_at_end(remlen)

\* `offset += n as u64` panics on overflow when the build checks overflow
\* and wraps when it does not.
OverflowOutcomes(x, n) == IF U64Overflows(x, n) THEN {"panic", "wrap"} ELSE {"ok"}

\* ------------------------------------------------------- the resource R
\* What one read_at / write_at of a primitive-only R may return for a buffer
\* of len bytes at offset x: any count it can transfer, or an error.
PrimResults(len, x, intr) ==
    {Ok(n) : n \in 0..Min(len, Avail(x))}
        \cup {Err("PermissionDenied")}
        \cup (IF intr THEN {Err("Interrupted")} ELSE {})

\* Bytes left between position p and the end of the Cursor's Vec.
CurAvail(p) == IF p >= 0 /\ p < StoreLen THEN StoreLen - p ELSE 0

\* Variant, not the source's: a seek relative to the cursor
\* (SeekFrom::Current).  C6 depends on the absolute seek.
SeekCurrent(x) == cursor + x

\* Seek::seek(SeekFrom::Start(x)) on a Cursor: the new position.
SeekStart(x) == x

\* What Seek::seek(&mut self.0, SeekFrom::Start(x)) returns: the Cursor
\* lands on x; another stream may land anywhere in the Vec, or fail.
SeekResults(x) ==
    IF kind = "cursor"
    THEN {Ok(SeekStart(x))}
    ELSE {Ok(SeekStart(x))} \cup {Ok(p) : p \in 0..StoreLen} \cup {Err("SeekFailed")}

\* Variant, not the source's: no test of the position the seek returned.
\* C12 depends on `if o != offset`.
SeekMismatchIgnored(o, x) == FALSE

\* `if o != offset`
SeekMismatch(o, x) == o # x

\* Variant, not the source's: the Mutex's write_all_at issuing one write_at
\* on R.  C4 depends on the whole buffer being written under the lock.
InnerOpSingle(t) == IF op[t] = "write_all_at" THEN "write_at" ELSE op[t]

\* The operation performed on R: the blanket impl of WriteAtMut forwards
\* write_at only, so its write_all_at is the default loop over the Mutex's
\* write_at.
OuterLoop(t) == route[t] = "widened" /\ op[t] = "write_all_at"
InnerOp(t) == IF OuterLoop(t) THEN "write_at" ELSE op[t]

\* Variant, not the source's: a lock() that recovers from poisoning.
\* C5 depends on the Err arm of the match on self.lock().
PoisonIgnored(m) == FALSE

\* Variant, not the source's: a lock() that does not wait for the holder.
\* C15 depends on lock() blocking.
LockNeverBlocks(m) == TRUE

\* self.lock() returns when no thread holds the Mutex.
LockFree(m) == m.holder = NoThread

\* self.lock() returns Err(PoisonError) on a poisoned Mutex.
PoisonError(m) == m.poisoned

\* Variant, not the source's: a guard taken for each sub-call and dropped
\* after it.  C3 depends on the guard living across the loop.
GuardDropped(t) == [mutex EXCEPT !.holder = NoThread]

\* The guard `se` lives until the method returns: the Mutex stays locked
\* between the sub-calls of R's exact operation.
GuardAfterSub(t) == mutex

\* A snapshot taken by thread t, unless another thread's call is inside R.
Snap(t, old, new) ==
    IF \E u \in Threads \ {t} : pc[u] \in {"held", "ret"} THEN old ELSE new

\* The guard dropped while the thread unwinds poisons the Mutex.
Unwound(t) ==
    IF mutex.holder = t THEN [holder |-> NoThread, poisoned |-> TRUE] ELSE mutex
\* Variant, not the source's: a guard that is dropped on the success path
\* only.  C14 depends on the guard being dropped on every return.
ReleasedOnOk(t) ==
    IF mutex.holder = t /\ ires[t].tag = "Ok"
    THEN [mutex EXCEPT !.holder = NoThread] ELSE mutex

\* The guard dropped when the method returns.
Released(t) ==
    IF mutex.holder = t THEN [mutex EXCEPT !.holder = NoThread] ELSE mutex

\* The loop's bookkeeping after a sub-call returned r, matched as m.
LoopApply(t, r, m) ==
    /\ got' = [got EXCEPT ![t] = @ + m.n]
    /\ offset' = [offset EXCEPT ![t] = U64Add(@, m.n)]
    /\ xfer' = [xfer EXCEPT ![t] = @ + (IF r.tag = "Ok" THEN r.n ELSE 0)]
    /\ lastsub' = [lastsub EXCEPT ![t] =
                     [off |-> offset[t], rem |-> Len(buf[t]) - got[t], r |-> r]]

\* A single read_at / write_at of a primitive-only R returning r: the bytes
\* it moves into the caller's buffer, or into the store.
PrimBuf(t, r) ==
    IF InnerOp(t) \in ReadOps
    THEN [buf EXCEPT ![t] = Fill(@, got[t], Slice(store, offset[t], r.n))]
    ELSE buf
\* Variant, not the source's: a write that fails puts the earlier contents
\* back.  C9 depends on there being no rollback.
PrimStoreUndo(t, r) ==
    IF InnerOp(t) \in ReadOps THEN store
    ELSE IF r.tag = "Err" /\ r # Err("Interrupted") THEN storeL
    ELSE WriteBytes(store, offset[t], SubSeq(Rest(buf[t], got[t]), 1, r.n))

PrimStore(t, r) ==
    IF InnerOp(t) \in ReadOps
    THEN store
    ELSE WriteBytes(store, offset[t], SubSeq(Rest(buf[t], got[t]), 1, r.n))

\* The variables of a thread with no call in progress.
Cleared(t, p) ==
    /\ pc' = [pc EXCEPT ![t] = p]
    /\ op' = [op EXCEPT ![t] = "read_at"]
    /\ route' = [route EXCEPT ![t] = "mutex"]
    /\ buf' = [buf EXCEPT ![t] = <<>>]
    /\ got' = [got EXCEPT ![t] = 0]
    /\ offset' = [offset EXCEPT ![t] = 0]
    /\ ires' = [ires EXCEPT ![t] = NoRes]
    /\ res' = [res EXCEPT ![t] = NoRes]
    /\ ooff' = [ooff EXCEPT ![t] = 0]
    /\ xfer' = [xfer EXCEPT ![t] = 0]
    /\ lastsub' = [lastsub EXCEPT ![t] = NoSub]
    /\ nintr' = [nintr EXCEPT ![t] = 0]
    /\ tcalls' = [tcalls EXCEPT ![t] = <<>>]
    /\ seek_o' = [seek_o EXCEPT ![t] = NoRes]

\* ------------------------------------------------------------- actions
\* A thread calls o(buf, x) by route r, with a buffer of n bytes.
Begin(t, o, r, x, n) ==
    /\ pc[t] = "idle"
    \* A write through the Cursor stays within the Vec (the Vec never grows here).
    /\ (kind \in SeekKinds /\ o \in WriteOps) => (x >= 0 /\ x + n <= StoreLen)
    /\ op' = [op EXCEPT ![t] = o]
    /\ route' = [route EXCEPT ![t] = r]
    /\ buf' = [buf EXCEPT ![t] = IF o \in ReadOps THEN ReadBuf(n) ELSE WriteData(n)]
    /\ ooff' = [ooff EXCEPT ![t] = x]
    /\ offset' = [offset EXCEPT ![t] = x]
    /\ storeL' = Snap(t, storeL, store)
    /\ hb' = [hb EXCEPT ![t] =
                IF lastL # t /\ lastL # NoThread /\ pc[lastL] = "done" THEN lastL ELSE NoThread]
    /\ tcalls' = [tcalls EXCEPT ![t] =
                    IF r = "direct" \/ (r = "widened" /\ o = "write_all_at")
                    THEN <<>> ELSE <<o>>]
    /\ pc' = [pc EXCEPT ![t] =
                IF r = "direct" THEN "held"
                ELSE IF r = "widened" /\ o = "write_all_at" THEN "outer"
                ELSE "lock"]
    /\ UNCHANGED <<shared, cursorB, lastL, storeW, got, ires, res, xfer, lastsub, nintr,
                   seek_o>>

\* The value r of the Mutex's operation reaches its caller: the user, or
\* the default write_all_at loop of the blanket WriteAtMut.
Deliver(t, r) ==
    IF OuterLoop(t)
    THEN LET m == write_all_at_match(r, Len(buf[t]) - got[t]) IN
         \E w \in OverflowOutcomes(offset[t], m.n) :
            IF w = "panic"
            THEN Cleared(t, "panicked")
            ELSE /\ LoopApply(t, r, m)
                 /\ pc' = [pc EXCEPT ![t] = IF m.fin THEN "done" ELSE "outer"]
                 /\ res' = [res EXCEPT ![t] = IF m.fin THEN m.res ELSE @]
                 /\ UNCHANGED <<callv, ires, nintr, tcalls>>
    ELSE /\ pc' = [pc EXCEPT ![t] = "done"]
         /\ res' = [res EXCEPT ![t] = r]
         /\ UNCHANGED <<callv, ires, nintr, tcalls, got, offset, xfer, lastsub>>

\* self.lock(): blocks while another thread holds the guard; a poisoned
\* Mutex makes the method return Err without touching R.
Lock(t) ==
    /\ pc[t] = "lock"
    /\ LockFree(mutex)
    /\ IF PoisonError(mutex)
       THEN /\ Deliver(t, Err("Poisoned"))
            /\ UNCHANGED <<mutex, storeL, lastL, storeW>>
       ELSE /\ mutex' = [mutex EXCEPT !.holder = t]
            /\ storeL' = IF route[t] = "mutex" THEN store ELSE storeL
            /\ lastL' = t
            /\ storeW' = IF op[t] \in WriteOps THEN store ELSE storeW
            /\ pc' = [pc EXCEPT ![t] = "held"]
            /\ UNCHANGED <<callv, ires, nintr, tcalls, res, got, offset, xfer, lastsub>>
    /\ UNCHANGED <<kind, store, cursor, cursorB, hb>>

\* read_at / write_at of a primitive-only R.
PrimSingle(t) ==
    /\ pc[t] = "held" /\ kind = "prim" /\ InnerOp(t) \notin ExactOps
    /\ \E r \in PrimResults(Len(buf[t]) - got[t], offset[t], nintr[t] < MaxIntr) :
         /\ buf' = PrimBuf(t, r)
         /\ store' = PrimStore(t, r)
         /\ nintr' = [nintr EXCEPT ![t] = IF r = Err("Interrupted") THEN @ + 1 ELSE @]
         /\ ires' = [ires EXCEPT ![t] = r]
    /\ pc' = [pc EXCEPT ![t] = "ret"]
    /\ UNCHANGED <<kind, cursor, mutex, op, route, ooff, seek_o, ghost,
                   got, offset, xfer, lastsub, res, tcalls>>

\* The default loop's `while !buf.is_empty()` is false: the loop ends.
LoopExit(t) ==
    /\ pc[t] = "held" /\ kind = "prim" /\ InnerOp(t) \in ExactOps
    /\ Rest(buf[t], got[t]) = <<>>
    /\ ires' = [ires EXCEPT ![t] = LoopEnd(op[t], 0)]
    /\ pc' = [pc EXCEPT ![t] = "ret"]
    /\ UNCHANGED <<shared, callv, loopv, res, tcalls, ghost>>

\* One iteration of the default loop of a primitive-only R: the sub-call
\* and the match on its result.
SubCall(t) ==
    /\ pc[t] = "held" /\ kind = "prim" /\ InnerOp(t) \in ExactOps
    /\ Rest(buf[t], got[t]) # <<>>
    /\ \E r \in PrimResults(Len(buf[t]) - got[t], offset[t], nintr[t] < MaxIntr) :
         LET m == LoopMatch(op[t], r, Len(buf[t]) - got[t]) IN
         \E w \in OverflowOutcomes(offset[t], m.n) :
            /\ store' = PrimStore(t, r)
            /\ IF w = "panic"
               THEN /\ Cleared(t, "panicked")
                    /\ mutex' = Unwound(t)
               ELSE /\ mutex' = IF m.fin THEN mutex ELSE GuardAfterSub(t)
                    /\ buf' = PrimBuf(t, r)
                    /\ nintr' = [nintr EXCEPT ![t] =
                                   IF r = Err("Interrupted") THEN @ + 1 ELSE @]
                    /\ LoopApply(t, r, m)
                    /\ pc' = [pc EXCEPT ![t] = IF m.fin THEN "ret" ELSE "held"]
                    /\ ires' = [ires EXCEPT ![t] = IF m.fin THEN m.res ELSE @]
                    /\ UNCHANGED <<op, route, ooff, seek_o, res, tcalls>>
    /\ UNCHANGED <<kind, cursor, ghost>>

\* R's own code panics during a call: the thread unwinds.
PrimPanic(t) ==
    /\ pc[t] = "held" /\ kind = "prim"
    /\ Cleared(t, "panicked")
    /\ mutex' = Unwound(t)
    /\ UNCHANGED <<kind, store, cursor, ghost>>

\* ReadWriteSeek's four methods: seek (an Err is returned by `?`), compare
\* the position returned with the offset, then Read::read / Read::read_exact
\* / Write::write / Write::write_all at the position of the stream.
SeekCall(t) ==
    /\ pc[t] = "held" /\ kind \in SeekKinds
    /\ \E s \in SeekResults(offset[t]) :
        /\ seek_o' = [seek_o EXCEPT ![t] = s]
        /\ IF s.tag = "Err"
           THEN /\ ires' = [ires EXCEPT ![t] = s]
                /\ UNCHANGED <<store, buf, cursor>>
           ELSE
           LET o == s.n
               rem == Rest(buf[t], got[t])
               len == Len(rem)
               n == Min(len, CurAvail(o))
           IN IF SeekMismatch(o, offset[t])
              THEN /\ ires' = [ires EXCEPT ![t] = Err("UnexpectedEof")]
                   /\ cursor' = o
                   /\ UNCHANGED <<store, buf>>
              ELSE CASE InnerOp(t) = "read_at" ->
                      /\ buf' = [buf EXCEPT ![t] = Fill(@, got[t], Slice(store, o, n))]
                      /\ cursor' = o + n
                      /\ ires' = [ires EXCEPT ![t] = Ok(n)]
                      /\ store' = store
                 [] InnerOp(t) = "read_exact_at" ->
                      IF CurAvail(o) >= len
                      THEN /\ buf' = [buf EXCEPT ![t] = Fill(@, got[t], Slice(store, o, len))]
                           /\ cursor' = o + len
                           /\ ires' = [ires EXCEPT ![t] = Ok(0)]
                           /\ store' = store
                      ELSE \* the position a failed read_exact leaves depends on the std version
                           /\ cursor' \in {o, StoreLen}
                           /\ ires' = [ires EXCEPT ![t] = Err("UnexpectedEof")]
                           /\ UNCHANGED <<store, buf>>
                 [] InnerOp(t) = "write_at" ->
                      /\ store' = WriteBytes(store, o, rem)
                      /\ cursor' = o + len
                      /\ ires' = [ires EXCEPT ![t] = Ok(len)]
                      /\ buf' = buf
                 [] InnerOp(t) = "write_all_at" ->
                      /\ store' = WriteBytes(store, o, rem)
                      /\ cursor' = o + len
                      /\ ires' = [ires EXCEPT ![t] = Ok(0)]
                      /\ buf' = buf
    /\ cursorB' = cursor
    /\ pc' = [pc EXCEPT ![t] = "ret"]
    /\ UNCHANGED <<kind, mutex, op, route, ooff, storeL, lastL, storeW, hb, loopv, res, tcalls>>

\* The operation on R has returned: the guard (if any) is dropped and the
\* value returned.
Return(t) ==
    /\ pc[t] = "ret"
    /\ mutex' = Released(t)
    /\ Deliver(t, ires[t])
    /\ UNCHANGED <<kind, store, cursor, ghost>>

\* Head of the default write_all_at loop of the blanket WriteAtMut (on the
\* Mutex): done when the buffer is empty, else the next write_at is called.
OuterHead(t) ==
    /\ pc[t] = "outer"
    /\ IF Rest(buf[t], got[t]) = <<>>
       THEN /\ res' = [res EXCEPT ![t] = write_all_at_end(0)]
            /\ pc' = [pc EXCEPT ![t] = "done"]
            /\ tcalls' = tcalls
       ELSE /\ pc' = [pc EXCEPT ![t] = "lock"]
            /\ tcalls' = [tcalls EXCEPT ![t] = Append(@, "write_at")]
            /\ res' = res
    /\ UNCHANGED <<shared, callv, loopv, ires, ghost>>

\* The caller has its result; the thread is ready for its next call.
Reset(t) ==
    /\ pc[t] = "done"
    /\ Cleared(t, "idle")
    \* With no call in progress the snapshots are the current values.
    /\ storeL' = Snap(t, storeL, store)
    /\ cursorB' = Snap(t, cursorB, cursor)
    /\ storeW' = Snap(t, storeW, store)
    /\ lastL' = IF lastL = t THEN NoThread ELSE lastL
    /\ hb' = [u \in Threads |-> IF hb[u] = t THEN NoThread ELSE hb[u]]
    /\ UNCHANGED shared

\* Offsets and lengths the callers use: the reads of the tests (offsets 0, 2
\* and 3), the write of the tests (offset 1), and the top of the u64 range.
TopOffsets == (0 - TopLen)..(-1)
Offsets(o) == (IF o \in ReadOps THEN {0, 2, 3} ELSE {1}) \cup TopOffsets
Lens == 0..MaxLen

Step(t) ==
    \/ Lock(t)
    \/ PrimSingle(t)
    \/ LoopExit(t)
    \/ SubCall(t)
    \/ PrimPanic(t)
    \/ SeekCall(t)
    \/ Return(t)
    \/ Reset(t)

\* One caller at a time, by any route (a &mut borrow excludes other
\* callers): the first thread makes the calls, and the second takes over
\* when the first has panicked.
Caller == IF pc["A"] # "panicked" THEN "A" ELSE "B"
NextSeq ==
    \/ \E o \in Ops, r \in Routes, n \in Lens :
          \E x \in Offsets(o) : Begin(Caller, o, r, x, n)
    \/ \E t \in Threads : Step(t) \/ OuterHead(t)

SpecSeq == Init /\ [][NextSeq]_vars

\* Calls one after another on ReadWriteSeek<S>, S a stream whose seek may
\* land elsewhere or fail.
NextSeek ==
    \/ \E o \in Ops, n \in Lens :
          \E x \in Offsets(o) : Begin(Caller, o, "direct", x, n)
    \/ \E t \in Threads : SeekCall(t) \/ Return(t) \/ Reset(t)

SpecSeek == InitSeek /\ [][NextSeek]_vars

\* The default loops alone: exact operations called one after another on a
\* primitive-only R.  A thread inside the loop keeps running: the loop has
\* no waiting point of its own, and each sub-call returns.
InitLoop == kind = "prim" /\ Constructed
LoopStep == \E t \in Threads : SubCall(t) \/ LoopExit(t)
NextLoop ==
    \/ \E o \in ExactOps, n \in Lens :
          \E x \in Offsets(o) : Begin(Caller, o, "direct", x, n)
    \/ \E t \in Threads : SubCall(t) \/ LoopExit(t) \/ Return(t) \/ Reset(t)

SpecLoop == InitLoop /\ [][NextLoop]_vars /\ WF_vars(LoopStep)

\* Two threads share the Mutex (Arc<Mutex<R>>) and call through it.
Next ==
    \E t \in Threads :
        \/ \E o \in Ops, n \in {0, MaxLen} :
              \E x \in Offsets(o) \cap {0, 1} : Begin(t, o, "mutex", x, n)
        \/ Step(t)

Spec == Init /\ [][Next]_vars

\* =============================================================== claims
\* The value a finished operation hands back: ires while the guard is still
\* held, res once the call has returned.
Returned(t) == IF pc[t] = "ret" THEN ires[t] ELSE res[t]

\* The default loop (of R, or of the blanket WriteAtMut over the Mutex) has
\* returned.
LoopReturned(t) ==
    \/ kind = "prim" /\ op[t] \in ExactOps /\ ~OuterLoop(t) /\ pc[t] = "ret"
    \/ OuterLoop(t) /\ pc[t] = "done"

\* Every byte of the caller's buffer holds the store's byte at its offset.
AllFilled(t) ==
    /\ xfer[t] = Len(buf[t])
    /\ \A i \in 1..Len(buf[t]) : buf[t][i] = store[U64Add(ooff[t], i - 1)]

\* Every byte of the caller's buffer is in the store at its offset.
AllWritten(t) ==
    /\ xfer[t] = Len(buf[t])
    /\ \A i \in 1..Len(buf[t]) : store[U64Add(ooff[t], i - 1)] = buf[t][i]

\* C1 as stated: the default read_exact_at loop on a non-empty buffer returns
\* either success with the whole buffer filled or UnexpectedEof, nothing else.
C1_Original ==
    \A t \in Threads :
        (LoopReturned(t) /\ op[t] = "read_exact_at" /\ Len(buf[t]) > 0) =>
            \/ ires[t] = Ok(0) /\ AllFilled(t)
            \/ ires[t] = Err("UnexpectedEof")

\* C1 amended: the default read_exact_at loop on a non-empty buffer returns
\* success with the whole buffer filled, or UnexpectedEof after a read_at of
\* Ok(0) left bytes unfilled, or the non-Interrupted error of its last
\* read_at unchanged; it never returns success with the buffer partly filled.
C1_ReadExactFillsOrFails ==
    \A t \in Threads :
        (LoopReturned(t) /\ op[t] = "read_exact_at" /\ Len(buf[t]) > 0) =>
            \/ ires[t] = Ok(0) /\ AllFilled(t)
            \/ /\ ires[t] = Err("UnexpectedEof")
               /\ lastsub[t].r = Ok(0)
               /\ xfer[t] < Len(buf[t])
            \/ /\ ires[t].tag = "Err"
               /\ ires[t].kind \notin {"Interrupted", "UnexpectedEof"}
               /\ ires[t] = lastsub[t].r

\* C1 witness: a 3-byte read at offset 3 filled by more than one read_at.
C1_Witness ==
    \E t \in Threads :
        /\ LoopReturned(t) /\ op[t] = "read_exact_at"
        /\ ires[t] = Ok(0) /\ ooff[t] = 3 /\ buf[t] = <<7, 8, 9>>
        /\ lastsub[t].rem < 3

\* C2: the default write_all_at loop returns success only once the counts
\* accepted by its write_at sub-calls add up to the buffer's length (and the
\* bytes are in the store); otherwise it returns an error.
C2_WriteAllWritesAll ==
    \A t \in Threads :
        (LoopReturned(t) /\ op[t] = "write_all_at") =>
            /\ Returned(t).tag \in {"Ok", "Err"}
            /\ Returned(t).tag = "Ok" => (Returned(t) = Ok(0) /\ AllWritten(t))

\* C2 witness: three bytes written at offset 1 by more than one write_at.
C2_Witness ==
    \E t \in Threads :
        /\ LoopReturned(t) /\ op[t] = "write_all_at" /\ Returned(t) = Ok(0)
        /\ Len(buf[t]) = 3 /\ ooff[t] = 1 /\ lastsub[t].rem < 3
        /\ Slice(store, 0, 4) = <<4, 44, 44, 44>>

\* C3: through the Mutex, a thread inside R excludes every other thread for
\* the whole exact operation: what a read_exact_at returns is the store as
\* it was at one instant (when its lock was acquired), and while a
\* write_all_at runs the store differs from that instant only by the bytes
\* this write has transferred so far.
C3_NoTornTransfer ==
    \A t \in Threads :
        pc[t] \in {"held", "ret"} =>
            /\ mutex.holder = t
            /\ \A u \in Threads \ {t} : pc[u] \notin {"held", "ret"}
            /\ op[t] \in ReadOps => store = storeL
            /\ (op[t] = "read_exact_at" /\ pc[t] = "ret" /\ ires[t].tag = "Ok") =>
                   buf[t] = Slice(storeL, ooff[t], Len(buf[t]))
            /\ (op[t] = "write_all_at" /\ kind = "prim") =>
                   store = WriteBytes(storeL, ooff[t], SubSeq(buf[t], 1, xfer[t]))
            /\ (op[t] = "write_all_at" /\ pc[t] = "ret" /\ ires[t].tag = "Ok") =>
                   store = WriteBytes(storeL, ooff[t], buf[t])

\* C3 witness: a read_exact_at filled by several read_at calls returns while
\* another thread's write_all_at over the same range waits for the lock.
C3_Witness ==
    \E t \in Threads, u \in Threads :
        /\ t # u
        /\ pc[t] = "ret" /\ op[t] = "read_exact_at" /\ ires[t] = Ok(0)
        /\ Len(buf[t]) = 3 /\ lastsub[t].rem < 3
        /\ pc[u] = "lock" /\ op[u] = "write_all_at" /\ Len(buf[u]) = 3

\* C4: a read_exact_at begun after another thread's write_all_at returned
\* (no call in between) returns that write's bytes where the ranges overlap
\* and the earlier contents elsewhere; a read_exact_at that had returned
\* before another thread's write_all_at began holds the contents from before
\* that write.
C4_ReadAfterWrite ==
    \A t \in Threads, u \in Threads :
        /\ ( /\ t # u /\ hb[t] = u /\ pc[u] = "done"
             /\ op[u] = "write_all_at" /\ res[u].tag = "Ok"
             /\ op[t] = "read_exact_at" /\ pc[t] \in {"ret", "done"}
             /\ Returned(t).tag = "Ok" ) =>
               buf[t] = Slice(WriteBytes(storeW, ooff[u], buf[u]), ooff[t], Len(buf[t]))
        /\ ( /\ t # u /\ hb[u] = t /\ pc[t] = "done"
             /\ op[t] = "read_exact_at" /\ res[t].tag = "Ok"
             /\ op[u] = "write_all_at" /\ pc[u] \in {"held", "ret"} ) =>
               buf[t] = Slice(storeL, ooff[t], Len(buf[t]))

\* C4 witness: the test's second read: [44,44,44] was written at offset 1 by
\* the other thread, whose call has returned; 3 bytes at offset 0 are [4,44,44].
C4_Witness ==
    \E t \in Threads, u \in Threads :
        /\ t # u /\ kind = "cursor"
        /\ hb[t] = u /\ pc[u] = "done" /\ op[u] = "write_all_at" /\ res[u] = Ok(0)
        /\ ooff[u] = 1 /\ buf[u] = <<44, 44, 44>>
        /\ pc[t] = "done" /\ op[t] = "read_exact_at" /\ res[t] = Ok(0)
        /\ ooff[t] = 0 /\ buf[t] = <<4, 44, 44>>

\* C5: once the Mutex is poisoned it stays poisoned, no thread gets into R,
\* the store and the cursor keep their values, and every call that reaches
\* lock() returns the poisoned-mutex error.
C5_PoisonedIsPermanent ==
    [][ mutex.poisoned =>
          /\ mutex'.poisoned
          /\ store' = store
          /\ cursor' = cursor
          /\ \A t \in Threads : pc'[t] \notin {"held", "ret"}
          /\ \A t \in Threads :
                (pc[t] = "lock" /\ pc'[t] # "lock") =>
                    (pc'[t] = "done" /\ res'[t] = Err("Poisoned")) ]_vars

\* C5 witness: on a poisoned Mutex a write_all_at of three bytes has returned
\* the poisoned-mutex error.
C5_Witness ==
    \E t \in Threads :
        /\ mutex.poisoned /\ pc[t] = "done" /\ res[t] = Err("Poisoned")
        /\ op[t] = "write_all_at" /\ Len(buf[t]) = 3

\* C6: ReadWriteSeek's read_exact_at within the Vec succeeds and returns the
\* store's bytes at the offset, wherever earlier calls left the cursor.
C6_SeekReadIsPositional ==
    \A t \in Threads :
        ( /\ kind = "cursor" /\ op[t] = "read_exact_at" /\ pc[t] = "ret"
          /\ ooff[t] >= 0 /\ ooff[t] + Len(buf[t]) <= StoreLen ) =>
            /\ ires[t] = Ok(0)
            /\ buf[t] = Slice(store, ooff[t], Len(buf[t]))

\* C6 witness: the tests' second read: the cursor stood at 4 (after 2 bytes
\* read at offset 2) and 3 bytes at offset 3 are [7,8,9].
C6_Witness ==
    \E t \in Threads :
        /\ kind = "cursor" /\ op[t] = "read_exact_at" /\ pc[t] = "ret"
        /\ route[t] = "direct" /\ cursorB = 4
        /\ ooff[t] = 3 /\ buf[t] = <<7, 8, 9>> /\ ires[t] = Ok(0)

\* C7: in the exact-transfer loops a sub-call that returns Interrupted moves
\* neither the offset nor the buffer nor any byte, the sub-call issued after
\* it has the same offset and the same remaining buffer, and Interrupted is
\* never what the loop returns.
C7_InterruptedIsRetried ==
    [][ \A t \in Threads :
          \* the sub-call that returns Interrupted moves no byte
          /\ nintr'[t] = nintr[t] + 1 => (store' = store /\ buf' = buf)
          \* the loop that receives Interrupted goes round again, unmoved
          /\ ( \/ /\ op[t] \in ExactOps /\ ~OuterLoop(t)
                  /\ nintr'[t] = nintr[t] + 1
               \/ /\ OuterLoop(t) /\ pc[t] = "ret"
                  /\ ires[t] = Err("Interrupted") /\ pc'[t] # "ret" ) =>
                 /\ pc'[t] \in {"held", "outer"}
                 /\ got'[t] = got[t] /\ offset'[t] = offset[t]
                 /\ buf' = buf /\ store' = store
          \* the sub-call after an interrupted one has its offset and buffer
          /\ (lastsub[t].r = Err("Interrupted") /\ lastsub'[t] # lastsub[t]
                /\ lastsub'[t] # NoSub) =>
                 /\ lastsub'[t].off = lastsub[t].off
                 /\ lastsub'[t].rem = lastsub[t].rem
          \* Interrupted is not what the loop returns
          /\ (op'[t] \in ExactOps /\ pc'[t] = "done") => res'[t] # Err("Interrupted")
          /\ (op'[t] \in ExactOps /\ pc'[t] = "ret" /\ ~OuterLoop(t)) =>
                 ires'[t] # Err("Interrupted") ]_vars

\* C7 witness: a read_exact_at of 3 bytes has succeeded although one of its
\* read_at calls was interrupted.
C7_Witness ==
    \E t \in Threads :
        /\ LoopReturned(t) /\ op[t] = "read_exact_at" /\ ires[t] = Ok(0)
        /\ nintr[t] > 0 /\ ooff[t] = 3 /\ buf[t] = <<7, 8, 9>>

\* C8 as stated: a call made through the blanket ReadAtMut/WriteAtMut of a
\* shared-handle object T performs on T exactly the same-named operation, once.
C8_WideningForwards ==
    \A t \in Threads :
        (route[t] = "widened" /\ pc[t] = "done") => tcalls[t] = <<op[t]>>

\* C9 as stated: a write_all_at that fails leaves the store as it was before
\* the call.
C9_Original ==
    \A t \in Threads :
        (pc[t] = "done" /\ op[t] = "write_all_at") =>
            IF res[t].tag = "Ok"
            THEN store = WriteBytes(storeL, ooff[t], buf[t])
            ELSE store = storeL

\* C9 amended: an exact transfer that succeeds has moved the whole buffer;
\* one that fails is not undone: the store holds the bytes its write_at
\* sub-calls accepted before the failure (a prefix of the buffer, at the
\* offset) and is otherwise as before, and the caller's read buffer holds
\* the bytes read before the failure in front of its old contents.
C9_ExactTransferPrefix ==
    \A t \in Threads :
        /\ (pc[t] = "done" /\ op[t] = "write_all_at") =>
              /\ xfer[t] <= Len(buf[t])
              /\ IF res[t].tag = "Ok"
                 THEN store = WriteBytes(storeL, ooff[t], buf[t])
                 ELSE store = WriteBytes(storeL, ooff[t], SubSeq(buf[t], 1, xfer[t]))
        /\ (pc[t] = "done" /\ op[t] = "read_exact_at") =>
              /\ store = storeL
              /\ xfer[t] <= Len(buf[t])
              /\ IF res[t].tag = "Ok"
                 THEN \A i \in 1..Len(buf[t]) : buf[t][i] = store[U64Add(ooff[t], i - 1)]
                 ELSE \A i \in 1..Len(buf[t]) :
                        buf[t][i] = IF i <= xfer[t] THEN store[U64Add(ooff[t], i - 1)] ELSE 0

\* C9 witness: a write_all_at of 3 bytes at offset 1 has failed after its
\* first byte was written.
C9_Witness ==
    \E t \in Threads :
        /\ pc[t] = "done" /\ op[t] = "write_all_at" /\ res[t].tag = "Err"
        /\ Len(buf[t]) = 3 /\ ooff[t] = 1 /\ xfer[t] = 1
        /\ Slice(store, 0, 4) = <<4, 44, 6, 7>>

\* C10: when the latest sub-call of the default loop returned Ok(0) with
\* bytes remaining, the loop has ended there: write_all_at with WriteZero,
\* read_exact_at with UnexpectedEof.
C10_ZeroEndsTheLoop ==
    \A t \in Threads :
        (op[t] \in ExactOps /\ lastsub[t].r = Ok(0)) =>
            /\ lastsub[t].rem > 0
            /\ pc[t] \in {"ret", "done"}
            /\ Returned(t) = IF op[t] = "write_all_at"
                             THEN Err("WriteZero") ELSE Err("UnexpectedEof")

\* C10 witness: a write_all_at of 3 bytes returned WriteZero when its second
\* write_at returned Ok(0).
C10_Witness ==
    \E t \in Threads :
        /\ op[t] = "write_all_at" /\ lastsub[t].r = Ok(0) /\ lastsub[t].rem = 2
        /\ Len(buf[t]) = 3 /\ pc[t] = "done" /\ res[t] = Err("WriteZero")

\* C11 as stated: at every sub-call of the exact-transfer loops the offset
\* passed is the original offset plus the bytes transferred by the earlier
\* sub-calls, with no wrap-around of the u64, the remaining buffer is the
\* original one less that prefix, and the bytes transferred never exceed the
\* buffer's length.
C11_LoopInvariant ==
    \A t \in Threads :
        (op[t] \in ExactOps /\ lastsub[t] # NoSub) =>
            LET before == Len(buf[t]) - lastsub[t].rem IN
            /\ before >= 0
            /\ lastsub[t].off = ooff[t] + before
            \* an offset at the top of the range has not come round to the bottom
            /\ ~(ooff[t] < 0 /\ lastsub[t].off >= 0)
            /\ xfer[t] <= Len(buf[t])
            /\ xfer[t] \in {before, before + lastsub[t].r.n}

\* The caller's buffer as it was passed.
PassedBuf(t) ==
    IF op[t] \in ReadOps THEN ReadBuf(Len(buf[t])) ELSE WriteData(Len(buf[t]))

\* C12: every call of ReadWriteSeek seeks first.  If the seek fails, its
\* error is what the call returns; if the seek returns a position other than
\* the offset, the call returns UnexpectedEof; in both cases nothing is read
\* or written: store and buffer are as before and the stream stands where
\* the seek left it.  Otherwise the transfer is made at the offset.
C12_SeekFirst ==
    \A t \in Threads :
        (kind \in SeekKinds /\ pc[t] \in {"ret", "done"} /\ route[t] = "direct") =>
            /\ seek_o[t] # NoRes
            /\ seek_o[t].tag = "Err" =>
                  /\ Returned(t) = seek_o[t]
                  /\ store = storeL /\ buf[t] = PassedBuf(t) /\ cursor = cursorB
            /\ (seek_o[t].tag = "Ok" /\ seek_o[t].n # ooff[t]) =>
                  /\ Returned(t) = Err("UnexpectedEof")
                  /\ store = storeL /\ buf[t] = PassedBuf(t) /\ cursor = seek_o[t].n
            /\ (seek_o[t] = Ok(ooff[t]) /\ op[t] = "write_all_at") =>
                  /\ Returned(t) = Ok(0)
                  /\ store = WriteBytes(storeL, ooff[t], buf[t])
            /\ (seek_o[t] = Ok(ooff[t]) /\ op[t] = "read_exact_at"
                  /\ Returned(t).tag = "Ok") =>
                  buf[t] = Slice(store, ooff[t], Len(buf[t]))

\* C12 witness: a write_all_at of 3 bytes at offset 1 whose seek landed on 5
\* has returned UnexpectedEof, the store being as it was constructed.
C12_Witness ==
    \E t \in Threads :
        /\ kind = "stream" /\ pc[t] = "done" /\ op[t] = "write_all_at"
        /\ ooff[t] = 1 /\ Len(buf[t]) = 3
        /\ seek_o[t] = Ok(5) /\ res[t] = Err("UnexpectedEof")
        /\ store = InitialStore /\ cursor = 5

\* C13: in the exact-transfer loops, when the latest sub-call returned an
\* error other than Interrupted the loop has returned, and what it returned
\* is that error: no sub-call follows it, and neither success nor another
\* error takes its place.
C13_ErrorsPropagate ==
    \A t \in Threads :
        ( /\ op[t] \in ExactOps
          /\ lastsub[t].r.tag = "Err" /\ lastsub[t].r # Err("Interrupted") ) =>
            /\ pc[t] \in {"ret", "done"}
            /\ Returned(t) = lastsub[t].r

\* C13 witness: a write_all_at of 3 bytes has returned the PermissionDenied
\* of its third write_at, two bytes being written.
C13_Witness ==
    \E t \in Threads :
        /\ op[t] = "write_all_at" /\ pc[t] = "done" /\ Len(buf[t]) = 3
        /\ xfer[t] = 2 /\ lastsub[t].rem = 1
        /\ lastsub[t].r = Err("PermissionDenied")
        /\ res[t] = Err("PermissionDenied")

\* C14: when a call through the Mutex returns from R, with success or with
\* R's error, the Mutex is left unlocked and not poisoned; a thread that is
\* not inside R holds no lock; and a call that reaches lock() on an
\* unpoisoned Mutex acquires it and enters R.
C14_LockReleased ==
    [][ \A t \in Threads :
          /\ (pc[t] = "ret" /\ pc'[t] # "ret") =>
                /\ pc'[t] = "done" /\ res'[t] = ires[t]
                /\ mutex'.holder = NoThread /\ ~mutex'.poisoned
          /\ pc'[t] \notin {"held", "ret"} => mutex'.holder # t
          /\ (pc[t] = "lock" /\ pc'[t] # "lock" /\ ~mutex.poisoned) =>
                (pc'[t] = "held" /\ mutex'.holder = t) ]_vars

\* C14 witness: a write_all_at has returned R's PermissionDenied after one
\* byte, and the other thread, whose call began after that, is inside R.
C14_Witness ==
    \E t \in Threads, u \in Threads :
        /\ t # u
        /\ pc[t] = "done" /\ op[t] = "write_all_at" /\ xfer[t] = 1
        /\ res[t] = Err("PermissionDenied")
        /\ hb[u] = t /\ pc[u] = "held" /\ mutex = [holder |-> u, poisoned |-> FALSE]

\* C15: at most one call through the Mutex is inside R, and it is the call of
\* the thread that acquired the lock last; the lock is acquired only when no
\* call is inside R; and every step that changes R's store or cursor is a
\* step of that one call.  The effects of the calls on R therefore come in
\* the order of the lock acquisitions, one call's after another's.
C15_MutualExclusion ==
    [][ /\ \A t \in Threads :
              pc[t] \in {"held", "ret"} =>
                  /\ mutex.holder = t /\ lastL = t
                  /\ \A u \in Threads \ {t} : pc[u] \notin {"held", "ret"}
        /\ (mutex'.holder # NoThread /\ mutex'.holder # mutex.holder) =>
              /\ mutex.holder = NoThread
              /\ \A u \in Threads : pc[u] \notin {"held", "ret"}
              /\ lastL' = mutex'.holder
              /\ store' = store /\ cursor' = cursor
        /\ (store' # store \/ cursor' # cursor) =>
              /\ mutex.holder # NoThread
              /\ mutex.holder = lastL
              /\ pc[mutex.holder] = "held"
              /\ \A u \in Threads \ {mutex.holder} :
                    pc'[u] = pc[u] /\ buf'[u] = buf[u] ]_vars

\* C15 witness: one thread is inside R in the middle of its write_all_at
\* (one byte of three written) while the other waits in lock() to read.
C15_Witness ==
    \E t \in Threads, u \in Threads :
        /\ t # u
        /\ pc[t] = "held" /\ op[t] = "write_all_at" /\ Len(buf[t]) = 3 /\ xfer[t] = 1
        /\ mutex.holder = t
        /\ pc[u] = "lock" /\ op[u] = "read_exact_at" /\ Len(buf[u]) = 3

\* C16: with an empty buffer the default read_exact_at and write_all_at loops
\* return success, at every offset, without a single read_at or write_at (no
\* sub-call recorded, nothing interrupted, nothing transferred, the store as
\* it was); and whenever they return success no byte of the buffer remains.
C16_EmptyBuffer ==
    \A t \in Threads :
        (LoopReturned(t) /\ op[t] \in ExactOps) =>
            /\ Len(buf[t]) = 0 =>
                  /\ Returned(t) = Ok(0)
                  /\ lastsub[t] = NoSub /\ nintr[t] = 0 /\ xfer[t] = 0
                  /\ OuterLoop(t) => tcalls[t] = <<>>
                  /\ store = storeL
            /\ Returned(t).tag = "Ok" => Rest(buf[t], got[t]) = <<>>

\* C16 witness: read_exact_at of an empty buffer at offset u64::MAX has
\* returned Ok(()) with no read_at issued.
C16_Witness ==
    \E t \in Threads :
        /\ kind = "prim" /\ route[t] = "direct" /\ op[t] = "read_exact_at"
        /\ pc[t] = "ret" /\ buf[t] = <<>> /\ ooff[t] = -1
        /\ ires[t] = Ok(0) /\ lastsub[t] = NoSub

\* A step of thread t's loop.
LoopMoved(t) ==
    \/ pc'[t] # pc[t] \/ got'[t] # got[t] \/ xfer'[t] # xfer[t]
    \/ nintr'[t] # nintr[t] \/ lastsub'[t] # lastsub[t]

\* C17: every iteration of the default loops either leaves the loop, or
\* drops at least one byte from the remaining buffer (which never goes below
\* empty, so at most Len(buf) iterations return a positive count), or was
\* interrupted and is retried; and with finitely many Interrupted results
\* (at most MaxIntr in a call) a call inside the loop leaves it.
C17_LoopTerminates ==
    /\ [][ \A t \in Threads :
             (pc[t] = "held" /\ op[t] \in ExactOps /\ LoopMoved(t)) =>
                \/ pc'[t] \in {"ret", "panicked"}
                \/ /\ pc'[t] = "held"
                   /\ got'[t] > got[t] /\ got'[t] <= Len(buf[t])
                   /\ nintr'[t] = nintr[t]
                \/ /\ pc'[t] = "held"
                   /\ got'[t] = got[t] /\ nintr'[t] = nintr[t] + 1
                   /\ lastsub'[t].r = Err("Interrupted") ]_vars
    /\ \A t \in Threads : (pc[t] = "held") ~> (pc[t] # "held")

\* C17 witness: a write_all_at of 3 bytes has returned Ok(()) after three
\* write_at calls of one byte each and one that was interrupted.
C17_Witness ==
    \E t \in Threads :
        /\ op[t] = "write_all_at" /\ pc[t] = "ret" /\ ires[t] = Ok(0)
        /\ Len(buf[t]) = 3 /\ xfer[t] = 3 /\ nintr[t] = 1
        /\ lastsub[t] = [off |-> 3, rem |-> 1, r |-> Ok(1)]

====
